---------------------------- MODULE Spec2Model ----------------------------
(***************************************************************************)
(* Field-service appointment manager (streamlit_app.py).                   *)
(*                                                                         *)
(* Five specifications over one set of variables:                          *)
(*   SpecParse  - parse_reschedule_request applied to every reply text up  *)
(*                to MaxLen characters;                                    *)
(*   SpecUpdate - update_appointment called by one session at a time;      *)
(*   SpecStore  - update_appointment called by two sessions concurrently   *)
(*                (load whole sheet, modify, write whole sheet back);      *)
(*   SpecFilter - the dashboard's job filter on every choice of the three  *)
(*                filter widgets;                                          *)
(*   Spec       - one browser session of the Streamlit script: every UI    *)
(*                event is one run of main() from the top, followed by the *)
(*                run that st.rerun() starts.                              *)
(*                                                                         *)
(* Text is a sequence of characters.  The 19-character literal             *)
(* "RESCHEDULE_REQUEST:" is one element, MARK: the literal cannot overlap  *)
(* itself (its only ':' is its last character), so substring search and    *)
(* str.split on it behave as on a single character.                        *)
(***************************************************************************)
EXTENDS Naturals, Sequences, FiniteSets, TLC

VARIABLES
    table,          \* the Google Sheet: a sequence of rows (records)
    view,           \* sidebar radio "Select View"
    work_order,     \* value of the text input "Enter your Work Order ID"
    session_state,  \* st.session_state: a function from the keys present
    page,           \* what the last script run rendered (widgets, locals)
    last,           \* the last UI event and the store call it issued
    calls,          \* per session: the frame of its update_appointment call
    response_text,  \* SpecParse: the argument of parse_reschedule_request
    parsed          \* SpecParse: its return value, <<>> before the call

vars == <<table, view, work_order, session_state, page, last, calls,
          response_text, parsed>>

-----------------------------------------------------------------------------
(* Bounds *)

\* longest reply text given to the parser in SpecParse
MaxLen == 6

\* update_appointment calls each session makes in SpecUpdate and SpecStore
MaxCalls == 1

\* chat turns kept in st.session_state.chat_history in Spec
MaxTurns == 1

\* longest search string typed into the dashboard
MaxSearch == 2

-----------------------------------------------------------------------------
(* Text *)

MARK == "RESCHEDULE_REQUEST:"
PIPE == "|"
NL == "\n"
SP == " "

\* characters str.strip() removes
Whitespace == {SP, NL}

\* the characters reply texts are built from; "a" is any other character
Chars == {MARK, PIPE, NL, SP, "a"}

Texts(n) == UNION {[1..k -> Chars] : k \in 0..n}

\* Python: c in s
Contains(s, c) == \E i \in 1..Len(s) : s[i] = c

IndexOf(s, c) == CHOOSE i \in 1..Len(s) : s[i] = c /\ \A j \in 1..(i-1) : s[j] # c

\* Python: s.split(sep)
RECURSIVE split(_, _)
split(s, sep) ==
    IF ~Contains(s, sep) THEN <<s>>
    ELSE LET i == IndexOf(s, sep)
         IN  <<SubSeq(s, 1, i-1)>> \o split(SubSeq(s, i+1, Len(s)), sep)

RECURSIVE lstrip(_)
lstrip(s) == IF s # <<>> /\ Head(s) \in Whitespace THEN lstrip(Tail(s)) ELSE s

RECURSIVE rstrip(_)
rstrip(s) ==
    IF s # <<>> /\ s[Len(s)] \in Whitespace THEN rstrip(SubSeq(s, 1, Len(s)-1)) ELSE s

\* Python: s.strip()
strip(s) == rstrip(lstrip(s))

\* Python's None, and a str value, as an optional
None == <<>>
Str(s) == <<s>>

\* Python truthiness of an optional str: None and "" are falsy
Truthy(o) == o # None /\ o[1] # <<>>

-----------------------------------------------------------------------------
(* parse_reschedule_request *)

RECURSIVE Reverse(_)
Reverse(q) == IF q = <<>> THEN <<>> ELSE Reverse(Tail(q)) \o <<Head(q)>>

\* mutant of request_lines: the candidate lines last first, so that index 0
\* picks the last one
request_lines_reversed(text) ==
    Reverse(SelectSeq(split(text, NL), LAMBDA line : Contains(line, MARK)))

\* the list comprehension of line 169: the lines holding the marker
request_lines(text) == SelectSeq(split(text, NL), LAMBDA line : Contains(line, MARK))

\* line 172: request_line.split(MARK)[1].strip().split('|')
request_parts(request_line) == split(strip(split(request_line, MARK)[2]), PIPE)

\* mutant of parse_reschedule_request: the two fields are returned untrimmed
parse_untrimmed(text) ==
    IF Contains(text, MARK)
    THEN LET parts == split(split(request_lines(text)[1], MARK)[2], PIPE)
         IN  IF Len(parts) = 2 THEN <<Str(parts[1]), Str(parts[2])>>
             ELSE <<None, None>>
    ELSE <<None, None>>

\* mutant of parse_reschedule_request: extra fields are ignored (len >= 2)
parse_lenient(text) ==
    IF Contains(text, MARK)
    THEN LET parts == request_parts(request_lines(text)[1])
         IN  IF Len(parts) >= 2
             THEN <<Str(strip(parts[1])), Str(strip(parts[2]))>>
             ELSE <<None, None>>
    ELSE <<None, None>>

parse_reschedule_request(text) ==
    IF Contains(text, MARK)
    THEN LET request_line == request_lines(text)[1]
             parts == request_parts(request_line)
         IN  IF Len(parts) = 2
             THEN <<Str(strip(parts[1])), Str(strip(parts[2]))>>
             ELSE <<None, None>>
    ELSE <<None, None>>

-----------------------------------------------------------------------------
(* SpecParse: the parser on every text up to MaxLen *)

\* the browser session before the first script run
NoUI ==
    /\ view = "Customer View"
    /\ work_order = ""
    /\ session_state = <<>>
    /\ page = <<>>
    /\ last = <<>>

InitParse ==
    /\ NoUI
    /\ table = <<>>
    /\ calls = <<>>
    /\ response_text \in Texts(MaxLen)
    /\ parsed = <<>>

Parse ==
    /\ parsed = <<>>
    /\ parsed' = parse_reschedule_request(response_text)
    /\ UNCHANGED <<table, view, work_order, session_state, page, last, calls,
                   response_text>>

NextParse == Parse

SpecParse == InitParse /\ [][NextParse]_vars

-----------------------------------------------------------------------------
(* What the parser is required to return, stated on character positions *)

Min(S) == CHOOSE x \in S : \A y \in S : x <= y
Max(S) == CHOOSE x \in S : \A y \in S : x >= y

\* the lines of a text: the maximal spans <<i, j>> holding no line break
LineSpans(text) ==
    {sp \in (1..(Len(text)+1)) \X (0..Len(text)) :
        /\ sp[2] >= sp[1] - 1
        /\ sp[1] = 1 \/ text[sp[1]-1] = NL
        /\ sp[2] = Len(text) \/ text[sp[2]+1] = NL
        /\ \A k \in sp[1]..sp[2] : text[k] # NL}

\* the candidate lines: those holding the marker
CandidateSpans(text) ==
    {sp \in LineSpans(text) : \E k \in sp[1]..sp[2] : text[k] = MARK}

FirstCandidate(text) ==
    LET sp == CHOOSE c \in CandidateSpans(text) :
                  \A o \in CandidateSpans(text) : c[1] <= o[1]
    IN  SubSeq(text, sp[1], sp[2])

Positions(s, c) == {k \in 1..Len(s) : s[k] = c}

\* everything on the line after its first marker
RemainderAfterMarker(line) == SubSeq(line, Min(Positions(line, MARK)) + 1, Len(line))

\* the remainder up to the next marker on the line, or to the line's end
SegmentAfterMarker(line) ==
    LET r == RemainderAfterMarker(line)
    IN  IF Positions(r, MARK) = {} THEN r
        ELSE SubSeq(r, 1, Min(Positions(r, MARK)) - 1)

\* s without its leading and trailing whitespace
Trimmed(s) ==
    LET core == {k \in 1..Len(s) : s[k] \notin Whitespace}
    IN  IF core = {} THEN <<>> ELSE SubSeq(s, Min(core), Max(core))

\* s holds exactly one '|': its two fields, trimmed
TwoFields(s) ==
    LET p == Min(Positions(s, PIPE))
    IN  <<Str(Trimmed(SubSeq(s, 1, p-1))), Str(Trimmed(SubSeq(s, p+1, Len(s))))>>

NoDirective == <<None, None>>

\* the result required for a candidate line, on the segment after its marker
Required(line) ==
    LET seg == SegmentAfterMarker(line)
    IN  IF Cardinality(Positions(seg, PIPE)) = 1 THEN TwoFields(seg) ELSE NoDirective

-----------------------------------------------------------------------------
(* Claims about the parser (SpecParse) *)

\* C5 as stated: a reply with exactly one candidate line, whose remainder
\* after the marker (to the end of the line) splits on '|' into exactly two
\* fields D and T, parses to (trimmed D, trimmed T).
C5_RemainderToLineEnd ==
    (/\ parsed # <<>>
     /\ Cardinality(CandidateSpans(response_text)) = 1
     /\ Cardinality(Positions(RemainderAfterMarker(FirstCandidate(response_text)), PIPE)) = 1)
    => parsed = TwoFields(RemainderAfterMarker(FirstCandidate(response_text)))

\* C5 amended: a reply with exactly one candidate line, whose text between the
\* line's first marker and the next marker on it (or the line's end) splits on
\* '|' into exactly two fields D and T, parses to (trimmed D, trimmed T),
\* whatever the other lines hold and whatever D and T look like.
C5_SingleLineParsed ==
    (/\ parsed # <<>>
     /\ Cardinality(CandidateSpans(response_text)) = 1
     /\ Cardinality(Positions(SegmentAfterMarker(FirstCandidate(response_text)), PIPE)) = 1)
    => parsed = TwoFields(SegmentAfterMarker(FirstCandidate(response_text)))

\* C5 witness: a parsed reply with a prose line, one candidate line, and a
\* field that trimming changed.
C5_Witness ==
    /\ parsed # <<>>
    /\ Cardinality(LineSpans(response_text)) >= 2
    /\ Cardinality(CandidateSpans(response_text)) = 1
    /\ LET seg == SegmentAfterMarker(FirstCandidate(response_text))
       IN  /\ Cardinality(Positions(seg, PIPE)) = 1
           /\ parsed = TwoFields(seg)
           /\ Truthy(parsed[2])
           /\ Len(parsed[1][1]) + Len(parsed[2][1]) + 1 < Len(seg)

\* C6: with more than one candidate line the result is the one required for
\* the first candidate line alone: its two trimmed fields if it is well-formed,
\* no directive if it is not, whatever the later candidate lines hold.
C6_FirstCandidateOnly ==
    (parsed # <<>> /\ Cardinality(CandidateSpans(response_text)) >= 2)
    => parsed = Required(FirstCandidate(response_text))

\* C6 witness: the first candidate line is malformed, a later one well-formed,
\* and the reply parsed to no directive.
C6_Witness ==
    /\ parsed = NoDirective
    /\ Cardinality(CandidateSpans(response_text)) >= 2
    /\ Required(FirstCandidate(response_text)) = NoDirective
    /\ \E sp \in CandidateSpans(response_text) :
          Required(SubSeq(response_text, sp[1], sp[2])) # NoDirective

\* C7 as stated: no candidate line, or a candidate line whose remainder after
\* the marker (to the end of the line) has a number of '|' other than one,
\* parses to no directive.
C7_RemainderFieldCount ==
    (/\ parsed # <<>>
     /\ \/ CandidateSpans(response_text) = {}
        \/ Cardinality(Positions(RemainderAfterMarker(FirstCandidate(response_text)), PIPE)) # 1)
    => parsed = NoDirective

\* C7 amended: a reply with no candidate line, or whose first candidate line
\* has a number of '|' other than one between its first marker and the next
\* marker on it (or the line's end), parses to no directive: (None, None),
\* never a partial pair.
C7_NoDirective ==
    (/\ parsed # <<>>
     /\ \/ CandidateSpans(response_text) = {}
        \/ Cardinality(Positions(SegmentAfterMarker(FirstCandidate(response_text)), PIPE)) # 1)
    => parsed = NoDirective

\* C7 witness: a candidate line with two separators parsed to no directive.
C7_Witness ==
    /\ parsed = NoDirective
    /\ CandidateSpans(response_text) # {}
    /\ Cardinality(Positions(SegmentAfterMarker(FirstCandidate(response_text)), PIPE)) >= 2

-----------------------------------------------------------------------------
(* The appointment sheet *)

\* the sheet's columns (COLUMNS); dates and times are text
Row(wo, name, date, time, status, tech) ==
    [Work_Order |-> wo, Customer_Name |-> name, Customer_Email |-> "mail",
     Address |-> "addr", Postal_Code |-> "zip", Appointment_Date |-> date,
     Appointment_Time |-> time, Status |-> status, Tech_ID |-> tech]

Date1 == <<"2026-02-18">>
Date2 == <<"2026-02-20">>
Date3 == <<"2026-03-01">>
Time1 == <<"9:00", SP, "AM">>
Time2 == <<"3:00", SP, "PM">>
Time3 == <<"11:30", SP, "AM">>

Sheet2 ==
    << Row("WO-001", "Ann", Date1, Time1, "Pending", "T1"),
       Row("WO-002", "Bob", Date1, Time3, "Confirmed", "T2") >>

Sheet3 == Sheet2 \o << Row("WO-003", "Cy", Date3, Time1, "Email Sent", "T1") >>

InitTables == {Sheet2, Sheet3}

\* an empty DataFrame
EmptyFrame == <<>>

\* load_appointments: the sheet, or an empty DataFrame when the read fails
load_appointments(sheet, read_ok) == IF read_ok THEN sheet ELSE EmptyFrame

\* line 94: mask = df[Work_Order] == work_order
mask(df, wo) == {i \in 1..Len(df) : df[i].Work_Order = wo}

\* mutant of set_fields: the mask is dropped (df[col] = value)
set_fields_unmasked(df, wo, new_date, new_time, new_status) ==
    [i \in 1..Len(df) |->
        [df[i] EXCEPT !.Appointment_Date = new_date,
                      !.Appointment_Time = new_time,
                      !.Status = new_status]]

\* lines 101-103: df.loc[mask, col] = value for the three columns
set_fields(df, wo, new_date, new_time, new_status) ==
    [i \in 1..Len(df) |->
        IF i \in mask(df, wo)
        THEN [df[i] EXCEPT !.Appointment_Date = new_date,
                           !.Appointment_Time = new_time,
                           !.Status = new_status]
        ELSE df[i]]

-----------------------------------------------------------------------------
(* update_appointment, step by step (SpecUpdate, SpecStore) *)

WorkOrders == {"WO-001", "WO-002", "WO-003"}
NewDates == {Date2, Date3}
NewTimes == {Time2, Time3}
NewStatuses == {"Rescheduled", "Confirmed", "Completed"}

\* A session's call frame.  before is the sheet when the call was made and n
\* the number of calls made: both are kept for the properties only.
IdleFrame ==
    [pc |-> "idle", work_order |-> "", new_date |-> <<>>, new_time |-> <<>>,
     new_status |-> "", df |-> EmptyFrame, ret |-> FALSE, error |-> "",
     before |-> <<>>, n |-> 0]

\* lines 83-88: the call, and get_sheet_connection
UA_Call(s, wo, d, t, st, conn) ==
    /\ calls[s].pc \in {"idle", "returned"}
    /\ calls[s].n < MaxCalls
    /\ calls' = [calls EXCEPT ![s] =
          [IdleFrame EXCEPT !.pc = IF conn THEN "load" ELSE "returned",
                            !.work_order = wo, !.new_date = d, !.new_time = t,
                            !.new_status = st,
                            !.error = IF conn THEN "" ELSE "no connection",
                            !.before = table, !.n = calls[s].n + 1]]
    /\ UNCHANGED <<table, view, work_order, session_state, page, last,
                   response_text, parsed>>

\* mutant of UA_Load: the check of lines 96-98 is missing
UA_Load_unchecked(s, read_ok) ==
    /\ calls[s].pc = "load"
    /\ LET df == load_appointments(table, read_ok)
           f == calls[s]
       IN  calls' = [calls EXCEPT ![s] =
              IF ~read_ok
              THEN [f EXCEPT !.pc = "returned", !.error = "exception"]
              ELSE [f EXCEPT !.pc = "write",
                             !.df = set_fields(df, f.work_order, f.new_date,
                                               f.new_time, f.new_status)]]
    /\ UNCHANGED <<table, view, work_order, session_state, page, last,
                   response_text, parsed>>

\* lines 91-103: load the sheet, find the row, set the fields in the frame.
\* A failed read leaves a DataFrame without columns: line 94 raises.
UA_Load(s, read_ok) ==
    /\ calls[s].pc = "load"
    /\ LET df == load_appointments(table, read_ok)
           f == calls[s]
       IN  calls' = [calls EXCEPT ![s] =
              IF ~read_ok
              THEN [f EXCEPT !.pc = "returned", !.error = "exception"]
              ELSE IF mask(df, f.work_order) = {}
              THEN [f EXCEPT !.pc = "returned", !.error = "not found", !.df = df]
              ELSE [f EXCEPT !.pc = "write",
                             !.df = set_fields(df, f.work_order, f.new_date,
                                               f.new_time, f.new_status)]]
    /\ UNCHANGED <<table, view, work_order, session_state, page, last,
                   response_text, parsed>>

\* lines 106-112: conn.update(data=df) writes the whole frame back
UA_Write(s, write_ok) ==
    /\ calls[s].pc = "write"
    /\ table' = IF write_ok THEN calls[s].df ELSE table
    /\ calls' = [calls EXCEPT ![s] =
          [@ EXCEPT !.pc = "returned", !.ret = write_ok,
                    !.error = IF write_ok THEN "" ELSE "exception"]]
    /\ UNCHANGED <<view, work_order, session_state, page, last, response_text, parsed>>

Call ==
    \E s \in DOMAIN calls, wo \in WorkOrders, d \in NewDates, t \in NewTimes,
       st \in NewStatuses, conn \in BOOLEAN : UA_Call(s, wo, d, t, st, conn)

Load == \E s \in DOMAIN calls, ok \in BOOLEAN : UA_Load(s, ok)

Write == \E s \in DOMAIN calls, ok \in BOOLEAN : UA_Write(s, ok)

NextStore == Call \/ Load \/ Write

InitStore(sessions) ==
    /\ NoUI
    /\ table \in InitTables
    /\ calls = [s \in sessions |-> IdleFrame]
    /\ response_text = <<>>
    /\ parsed = <<>>

\* one session: calls never overlap
SpecUpdate == InitStore({1}) /\ [][NextStore]_vars

\* two sessions: their calls interleave
SpecStore == InitStore({1, 2}) /\ [][NextStore]_vars

RowsOf(sheet, wo) == {i \in 1..Len(sheet) : sheet[i].Work_Order = wo}

OtherColumns(r) ==
    <<r.Work_Order, r.Customer_Name, r.Customer_Email, r.Address, r.Postal_Code,
      r.Tech_ID>>

\* C8: update_appointment on a work order that matches no row returns failure
\* and leaves the sheet as it was when the call was made: same number of rows,
\* every row identical, nothing written back.
C8_NotFoundUnchanged ==
    \A s \in DOMAIN calls :
        (calls[s].pc = "returned" /\ RowsOf(calls[s].before, calls[s].work_order) = {})
        => /\ calls[s].ret = FALSE
           /\ table = calls[s].before

\* C8 witness: a call on an absent work order that read the sheet and returned.
C8_Witness ==
    \E s \in DOMAIN calls :
        /\ calls[s].pc = "returned"
        /\ calls[s].error = "not found"
        /\ calls[s].work_order \notin {table[i].Work_Order : i \in 1..Len(table)}
        /\ Len(table) >= 2

\* C9: a successful update_appointment(w, d, t, s) leaves the number of rows,
\* the work-order keys and their order, every other column of row w and every
\* column of every other row as they were when the call was made; row w holds
\* date d, time t and status s.
C9_FrameOfUpdate ==
    \A s \in DOMAIN calls :
        (calls[s].pc = "returned" /\ calls[s].ret)
        => LET f == calls[s] IN
           /\ Len(table) = Len(f.before)
           /\ \A i \in 1..Len(table) :
                 /\ OtherColumns(table[i]) = OtherColumns(f.before[i])
                 /\ table[i].Work_Order # f.work_order => table[i] = f.before[i]
                 /\ table[i].Work_Order = f.work_order =>
                       /\ table[i].Appointment_Date = f.new_date
                       /\ table[i].Appointment_Time = f.new_time
                       /\ table[i].Status = f.new_status

\* C9 witness: a successful call that changed the middle row of three.
C9_Witness ==
    \E s \in DOMAIN calls :
        /\ calls[s].pc = "returned" /\ calls[s].ret
        /\ Len(table) = 3
        /\ calls[s].work_order = "WO-002"
        /\ table[2] # calls[s].before[2]

\* C10: when two sessions' calls on two different work orders have both
\* returned success, each row carries its own session's update.
C10_DisjointUpdates ==
    (/\ DOMAIN calls = {1, 2}
     /\ \A s \in {1, 2} : calls[s].pc = "returned" /\ calls[s].ret /\ calls[s].n = 1
     /\ calls[1].work_order # calls[2].work_order)
    => \A s \in {1, 2} : \A i \in RowsOf(table, calls[s].work_order) :
          /\ table[i].Appointment_Date = calls[s].new_date
          /\ table[i].Appointment_Time = calls[s].new_time
          /\ table[i].Status = calls[s].new_status

-----------------------------------------------------------------------------
(* update_appointment as one call (Spec: a single session, nothing interleaves) *)

StoreOutcomes == {"ok", "no connection", "read failed", "write failed"}

NoCall ==
    [issued |-> FALSE, work_order |-> "", new_date |-> <<>>, new_time |-> <<>>,
     new_status |-> "", ret |-> FALSE]

\* lines 83-112; outcome is what the sheet connection does during the call
update_appointment(sheet, wo, new_date, new_time, new_status, outcome) ==
    LET df == load_appointments(sheet, outcome # "read failed")
        ok == /\ outcome = "ok"
              /\ mask(df, wo) # {}
    IN  [ret   |-> ok,
         table |-> IF ok THEN set_fields(df, wo, new_date, new_time, new_status)
                   ELSE sheet,
         call  |-> [issued |-> TRUE, work_order |-> wo, new_date |-> new_date,
                    new_time |-> new_time, new_status |-> new_status, ret |-> ok]]

-----------------------------------------------------------------------------
(* The dashboard's job filter (SpecFilter) *)

\* the characters of work orders, names and search strings
SearchChars == {"W", "w", "A", "a", "n", "1", "."}

\* re.IGNORECASE on the letters in use
lower(c) == CASE c = "W" -> "w" [] c = "A" -> "a" [] OTHER -> c

\* re.search(pat, s, re.IGNORECASE) for a pattern of literal characters and
\* '.', which matches any one character: str.contains takes its argument as
\* a regular expression (regex=True is the default)
str_contains(s, pat) ==
    \E i \in 0..(Len(s) - Len(pat)) :
        \A j \in 1..Len(pat) : pat[j] = "." \/ lower(pat[j]) = lower(s[i + j])

\* df[col].unique()
unique(df, col) == {df[i][col] : i \in 1..Len(df)}

\* lines 473-476: status and technician
filter_selected(df, status_filter, tech_filter) ==
    LET keep(r) == r.Status \in status_filter /\ r.Tech_ID \in tech_filter
    IN  SelectSeq(df, keep)

\* lines 478-482: if search, keep the rows whose work order or name matches
filter_search(df, search) ==
    LET keep(r) == \/ str_contains(r.Work_Order, search)
                   \/ str_contains(r.Customer_Name, search)
    IN  IF search # <<>> THEN SelectSeq(df, keep) ELSE df

\* lines 472-482
filtered_df(df, status_filter, tech_filter, search) ==
    filter_search(filter_selected(df, status_filter, tech_filter), search)

FilterSheet ==
    << Row(<<"W", "1">>, <<"A", "n">>, Date1, Time1, "Pending", "T1"),
       Row(<<"W", "1", "1">>, <<"n", "a">>, Date1, Time3, "Confirmed", "T2"),
       Row(<<"W", "a">>, <<"A", "1">>, Date3, Time1, "Pending", "T2") >>

FilterTables == {SubSeq(FilterSheet, 1, n) : n \in 1..Len(FilterSheet)}

Searches == UNION {[1..n -> SearchChars] : n \in 0..MaxSearch}

\* the dashboard of a logged-in technician with the three filter widgets set
InitFilter ==
    /\ table \in FilterTables
    /\ view = "Technician Dashboard"
    /\ work_order = ""
    /\ session_state = [tech_authenticated |-> TRUE]
    /\ \E S \in SUBSET unique(table, "Status"), T \in SUBSET unique(table, "Tech_ID"),
          q \in Searches :
          page = [kind |-> "filters", status_filter |-> S, tech_filter |-> T,
                  search |-> q, rows |-> <<>>]
    /\ last = <<>>
    /\ calls = <<>>
    /\ response_text = <<>>
    /\ parsed = <<>>

\* lines 472-485: the run that lists the jobs
ListJobs ==
    /\ page.kind = "filters"
    /\ page' = [page EXCEPT !.kind = "job list",
                            !.rows = filtered_df(table, page.status_filter,
                                                 page.tech_filter, page.search)]
    /\ UNCHANGED <<table, view, work_order, session_state, last, calls,
                   response_text, parsed>>

NextFilter == ListJobs

SpecFilter == InitFilter /\ [][NextFilter]_vars

\* q occurs in s, letter case ignored
Occurs(s, q) ==
    \E i \in 0..(Len(s) - Len(q)) : \A j \in 1..Len(q) : lower(q[j]) = lower(s[i + j])

\* the rows the dashboard is required to list
RequiredRows(df, S, T, q) ==
    LET keep(r) == /\ r.Status \in S
                   /\ r.Tech_ID \in T
                   /\ (q = <<>> \/ Occurs(r.Work_Order, q) \/ Occurs(r.Customer_Name, q))
    IN  SelectSeq(df, keep)

\* C14: the listed rows are exactly the rows with status in S, technician in
\* T and (q empty or q occurring, letter case ignored, in the work order or
\* the customer name), in the sheet's order.
C14_DashboardFilter ==
    page.kind = "job list"
    => page.rows = RequiredRows(table, page.status_filter, page.tech_filter,
                                page.search)

-----------------------------------------------------------------------------
(* The chat assistant *)

Prompts == { <<"Can", SP, "we", SP, "move", SP, "it?">> }

\* replies of the model: a question, the directive of the system prompt's
\* example between two prose lines, a directive line without a separator, and
\* one with an empty date
Replies ==
    { <<"What", SP, "day", SP, "works?">>,
      <<"Sure!", SP, NL, MARK, SP, "2026-02-20", SP, PIPE, SP, "3:00", SP, "PM",
        NL, "See", SP, "you.">>,
      <<MARK, SP, "2026-02-20">>,
      <<MARK, SP, PIPE, SP, "3:00", SP, "PM">> }

\* str(e) of the exception a failed call raises: a plain message, and one that
\* quotes text holding the marker
ErrorTexts ==
    { <<"503", SP, "unavailable">>,
      <<"400", SP, "blocked:", SP, MARK, SP, "2026-02-20", SP, PIPE, SP, "3:00",
        SP, "PM">> }

Outcomes ==
    [raised : {FALSE}, text : Replies] \cup [raised : {TRUE}, text : ErrorTexts]

ErrPrefix == <<"Model", SP, "Error:", SP>>
ErrSuffix == <<".", SP, "Try", SP, "checking", SP, "your", SP, "API", SP, "key",
               SP, "permissions", SP, "in", SP, "Google", SP, "AI", SP, "Studio.">>

\* lines 151-162: the reply, or the formatted exception
chat_with_gemini(outcome) ==
    IF outcome.raised THEN ErrPrefix \o outcome.text \o ErrSuffix ELSE outcome.text

\* lines 118-149: the template with the appointment's fields filled in
initialize_chat_session(appt) ==
    [Work_Order |-> appt.Work_Order, Customer_Name |-> appt.Customer_Name,
     Appointment_Date |-> appt.Appointment_Date,
     Appointment_Time |-> appt.Appointment_Time,
     Address |-> appt.Address, Status |-> appt.Status]

-----------------------------------------------------------------------------
(* One run of the script *)

\* The widget whose event started the run.  A run carries one event: buttons
\* and st.chat_input return a value only in the run their own event starts.
NoEvent == [widget |-> "none", prompt |-> <<>>, outcome |-> [raised |-> FALSE, text |-> <<>>],
            password |-> "", job |-> "", mail |-> "none"]

Page(kind) ==
    [kind |-> kind, confirm_reschedule |-> FALSE, new_date |-> None,
     new_time |-> None, confirm_appointment |-> FALSE, jobs |-> {}]

\* what a run hands back: the session state, the sheet, the page it rendered,
\* the store call it made, the st.success texts it showed, whether it reached
\* the widgets below the appointment lookup, whether it ended in st.rerun()
Result(ss, sheet, pg, call, shown, reached, rerun) ==
    [session_state |-> ss, table |-> sheet, page |-> pg, call |-> call,
     shown |-> shown, reached |-> reached, rerun |-> rerun]

Has(ss, key) == key \in DOMAIN ss

Put(ss, key, value) == [k \in DOMAIN ss \cup {key} |-> IF k = key THEN value ELSE ss[k]]

\* lines 361-373: after update_appointment returned for "Confirm Reschedule"
finish_reschedule(ss2, pg, upd) ==
    IF upd.ret
    THEN Result(Put(ss2, "chat_history", <<>>), upd.table, pg, upd.call,
                {"Appointment rescheduled"}, TRUE, TRUE)
    ELSE Result(ss2, upd.table, pg, upd.call, {}, TRUE, FALSE)

\* lines 387-392: after update_appointment returned for "Confirm Appointment"
finish_confirm(ss2, pg, upd) ==
    Result(ss2, upd.table, pg, upd.call, {"Appointment confirmed!"}, TRUE, TRUE)

\* mutant of cv_buttons: a detected directive is committed in the chat turn
cv_buttons_autocommit(ss2, sheet, wo, ev, net, appt, directive, detected, pg) ==
    IF detected
    THEN finish_reschedule(ss2, pg,
             update_appointment(sheet, wo, directive[1][1], directive[2][1],
                                "Rescheduled", net.update))
    ELSE Result(ss2, sheet, pg, NoCall, {}, TRUE, FALSE)

\* lines 359-392: the buttons, given the chat block's locals.  The "Confirm
\* Reschedule" button exists only inside the chat-input block (detected).
cv_buttons(ss2, sheet, wo, ev, net, appt, directive, detected, pg) ==
    IF detected /\ ev.widget = "confirm_reschedule"
    THEN finish_reschedule(ss2, pg,
             update_appointment(sheet, wo, directive[1][1], directive[2][1],
                                "Rescheduled", net.update))
    ELSE IF ev.widget = "start_new_chat"
    THEN Result(Put(ss2, "chat_history", <<>>), sheet, pg, NoCall, {}, TRUE, TRUE)
    ELSE IF pg.confirm_appointment /\ ev.widget = "confirm_appointment"
    THEN finish_confirm(ss2, pg,
             update_appointment(sheet, wo, appt.Appointment_Date,
                                appt.Appointment_Time, "Confirmed", net.update))
    ELSE Result(ss2, sheet, pg, NoCall,
                IF detected THEN {"Reschedule request detected!"} ELSE {}, TRUE, FALSE)

\* lines 356-357, 385: what the run renders below the chat
cv_page(ss2, sheet, wo, ev, net, appt, directive, detected) ==
    cv_buttons(ss2, sheet, wo, ev, net, appt, directive, detected,
               [Page("chat") EXCEPT
                   !.confirm_reschedule = detected,
                   !.new_date = IF detected THEN directive[1] ELSE None,
                   !.new_time = IF detected THEN directive[2] ELSE None,
                   !.confirm_appointment = appt.Status \in {"Pending", "Email Sent"}])

\* mutant of cv_detect: the date is not tested (if new_time)
cv_detect_time_only(ss2, sheet, wo, ev, net, appt, directive) ==
    cv_page(ss2, sheet, wo, ev, net, appt, directive, Truthy(directive[2]))
\* lines 353-356: if new_date and new_time
cv_detect(ss2, sheet, wo, ev, net, appt, directive) ==
    cv_page(ss2, sheet, wo, ev, net, appt, directive,
            Truthy(directive[1]) /\ Truthy(directive[2]))

\* mutant of cv_chat: a failed assistant call leaves no assistant entry
cv_chat_no_error_entry(ss1, sheet, wo, ev, net, appt, response) ==
    IF ev.widget = "chat_input"
    THEN cv_detect(Put(ss1, "chat_history",
                       ss1["chat_history"]
                       \o <<[role |-> "user", content |-> ev.prompt]>>
                       \o IF ev.outcome.raised THEN <<>>
                          ELSE <<[role |-> "assistant", content |-> response]>>),
                   sheet, wo, ev, net, appt, parse_reschedule_request(response))
    ELSE cv_detect(ss1, sheet, wo, ev, net, appt, <<None, None>>)
\* lines 324-354: the chat-input block, entered only by the chat input's event
cv_chat(ss1, sheet, wo, ev, net, appt, response) ==
    IF ev.widget = "chat_input"
    THEN cv_detect(Put(ss1, "chat_history",
                       ss1["chat_history"]
                       \o <<[role |-> "user", content |-> ev.prompt],
                            [role |-> "assistant", content |-> response]>>),
                   sheet, wo, ev, net, appt, parse_reschedule_request(response))
    ELSE cv_detect(ss1, sheet, wo, ev, net, appt, <<None, None>>)

\* lines 310-313: the session is created once, with the context of that moment
cv_session(ss, sheet, wo, ev, net, appt) ==
    cv_chat(IF Has(ss, "chat_history") THEN ss
            ELSE Put(Put(ss, "chat_history", <<>>),
                     "system_prompt", initialize_chat_session(appt)),
            sheet, wo, ev, net, appt, chat_with_gemini(ev.outcome))

\* lines 261-280: the appointment lookup
cv_lookup(ss, sheet, wo, ev, net, df) ==
    IF wo = "" THEN Result(ss, sheet, Page("ask work order"), NoCall, {}, FALSE, FALSE)
    ELSE IF df = EmptyFrame
    THEN Result(ss, sheet, Page("load failed"), NoCall, {}, FALSE, FALSE)
    ELSE IF mask(df, wo) = {}
    THEN Result(ss, sheet, Page("not found"), NoCall, {}, FALSE, FALSE)
    ELSE cv_session(ss, sheet, wo, ev, net, df[Min(mask(df, wo))])

\* lines 246-392
customer_view(ss, sheet, wo, ev, net) ==
    cv_lookup(ss, sheet, wo, ev, net, load_appointments(sheet, net.load))

TECH_PASSWORD == "admin123"

\* mutant of finish_complete: the slot is written back as the '' defaults
finish_complete_blank_slot(ss1, pg, upd) ==
    Result(ss1,
           IF upd.ret
           THEN set_fields(upd.table, upd.call.work_order, <<>>, <<>>, "Completed")
           ELSE upd.table,
           pg, upd.call, {"Marked as complete!"}, TRUE, TRUE)
\* lines 512-519: after update_appointment returned for "Mark Complete"
finish_complete(ss1, pg, upd) ==
    Result(ss1, upd.table, pg, upd.call, {"Marked as complete!"}, TRUE, TRUE)

\* what the mail server does when a late alert is sent
MailOutcomes == {"sent", "failed", "not configured"}

\* lines 187-240: True when the message was handed to the SMTP server
send_late_alert_email(appointment, mail) == mail = "sent"

\* lines 500-509: the "Send Late Alert" button of a listed job
late_alert(appointment, mail) ==
    IF mail # "not configured"
    THEN IF send_late_alert_email(appointment, mail)
         THEN {"Late alert sent!"}
         ELSE {"Failed to send email"}
    ELSE {"Email credentials not configured"}

\* lines 485-536: the job list and the bulk actions
tv_buttons(ss1, sheet, ev, net, df, pg) ==
    IF ev.widget = "late_alert" /\ ev.job \in pg.jobs
    THEN Result(ss1, sheet, pg, NoCall,
                late_alert(df[Min(mask(df, ev.job))], ev.mail), TRUE, FALSE)
    ELSE IF ev.widget = "mark_complete" /\ ev.job \in pg.jobs
    THEN finish_complete(ss1, pg,
             update_appointment(sheet, ev.job,
                                df[Min(mask(df, ev.job))].Appointment_Date,
                                df[Min(mask(df, ev.job))].Appointment_Time,
                                "Completed", net.update))
    ELSE IF ev.widget = "refresh"
    THEN Result(ss1, sheet, pg, NoCall, {}, TRUE, TRUE)
    ELSE IF ev.widget = "logout"
    THEN Result(Put(ss1, "tech_authenticated", FALSE), sheet, pg, NoCall, {},
                TRUE, TRUE)
    ELSE Result(ss1, sheet, pg, NoCall, {}, TRUE, FALSE)

\* mutant of tv_gate: "Login" does not compare the password
tv_gate_any_password(ss1, sheet, ev, net, df) ==
    IF ~ss1["tech_authenticated"]
    THEN IF ev.widget = "login"
         THEN Result(Put(ss1, "tech_authenticated", TRUE), sheet, Page("login"),
                     NoCall, {}, TRUE, TRUE)
         ELSE Result(ss1, sheet, Page("login"), NoCall, {}, TRUE, FALSE)
    ELSE IF df = EmptyFrame
    THEN Result(ss1, sheet, Page("no appointments"), NoCall, {}, FALSE, FALSE)
    ELSE tv_buttons(ss1, sheet, ev, net, df,
                    [Page("dashboard") EXCEPT
                        !.jobs = unique(filtered_df(df, unique(df, "Status"),
                                                    unique(df, "Tech_ID"), <<>>),
                                        "Work_Order")])
\* lines 407-428: the password gate, then the sheet
tv_gate(ss1, sheet, ev, net, df) ==
    IF ~ss1["tech_authenticated"]
    THEN IF ev.widget = "login" /\ ev.password = TECH_PASSWORD
         THEN Result(Put(ss1, "tech_authenticated", TRUE), sheet, Page("login"),
                     NoCall, {}, TRUE, TRUE)
         ELSE Result(ss1, sheet, Page("login"), NoCall, {}, TRUE, FALSE)
    ELSE IF df = EmptyFrame
    THEN Result(ss1, sheet, Page("no appointments"), NoCall, {}, FALSE, FALSE)
    ELSE tv_buttons(ss1, sheet, ev, net, df,
                    [Page("dashboard") EXCEPT
                        !.jobs = unique(filtered_df(df, unique(df, "Status"),
                                                    unique(df, "Tech_ID"), <<>>),
                                        "Work_Order")])

\* lines 398-536; the filter widgets stay at their defaults (every status,
\* every technician, no search string)
technician_view(ss, sheet, ev, net) ==
    tv_gate(IF Has(ss, "tech_authenticated") THEN ss
            ELSE Put(ss, "tech_authenticated", FALSE),
            sheet, ev, net, load_appointments(sheet, net.load))

\* lines 542-583
main(ss, sheet, v, wo, ev, net) ==
    IF v = "Customer View" THEN customer_view(ss, sheet, wo, ev, net)
    ELSE technician_view(ss, sheet, ev, net)

-----------------------------------------------------------------------------
(* Spec: the UI events of one browser session *)

Views == {"Customer View", "Technician Dashboard"}
WorkOrderInputs == {"", "WO-001", "WO-002", "WO-999"}
Passwords == {"admin123", "letmein"}

\* what the sheet connection does during a run: the run's own
\* load_appointments, and the update_appointment call if it makes one
Net == [load : BOOLEAN, update : StoreOutcomes]
NetLoad == [load : BOOLEAN, update : {"ok"}]

NoLast ==
    [op |-> "none", work_order |-> "", prompt |-> <<>>,
     outcome |-> [raised |-> FALSE, text |-> <<>>], pending |-> <<None, None>>,
     call |-> NoCall, shown |-> {}, reached |-> FALSE, password |-> "",
     job |-> "", mail |-> "none", net |-> [load |-> TRUE, update |-> "ok"]]

Init ==
    /\ table \in InitTables
    /\ view = "Customer View"
    /\ work_order = ""
    /\ session_state = <<>>
    /\ page = Page("ask work order")
    /\ last = NoLast
    /\ calls = <<>>
    /\ response_text = <<>>
    /\ parsed = <<>>

\* the state after the event's run r1 and the last run r2
Commit(ev, v, wo, net1, r1, r2) ==
    /\ view' = v
    /\ work_order' = wo
    /\ session_state' = r2.session_state
    /\ table' = r2.table
    /\ page' = r2.page
    /\ last' = [op |-> ev.widget, work_order |-> wo, prompt |-> ev.prompt,
                outcome |-> ev.outcome,
                pending |-> <<page.new_date, page.new_time>>,
                call |-> r1.call, shown |-> r1.shown, reached |-> r1.reached,
                password |-> ev.password, job |-> ev.job, mail |-> ev.mail,
                net |-> net1]
    /\ UNCHANGED <<calls, response_text, parsed>>

\* st.rerun(): the script runs again from the top, with no widget event
Rerun(ev, v, wo, net1, r1, net2) ==
    IF r1.rerun
    THEN Commit(ev, v, wo, net1, r1,
                main(r1.session_state, r1.table, v, wo, NoEvent, net2))
    ELSE Commit(ev, v, wo, net1, r1, r1)

\* The run the event ev starts with the radio at v and the text input at wo,
\* and, when that run ends in st.rerun(), the run that follows it.
Event(ev, v, wo, net1, net2) ==
    Rerun(ev, v, wo, net1, main(session_state, table, v, wo, ev, net1), net2)

\* lines 255-259: typing a work order
EnterWorkOrder ==
    /\ view = "Customer View"
    /\ \E wo \in WorkOrderInputs \ {work_order}, net \in NetLoad :
          Event([NoEvent EXCEPT !.widget = "text_input"], view, wo, net, net)

\* lines 324-357: sending a chat message
SubmitChat ==
    /\ page.kind = "chat"
    /\ Len(session_state["chat_history"]) < 2 * MaxTurns
    /\ \E prompt \in Prompts, outcome \in Outcomes, net \in NetLoad :
          Event([NoEvent EXCEPT !.widget = "chat_input", !.prompt = prompt,
                                !.outcome = outcome],
                view, work_order, net, net)

\* line 359: clicking "Confirm Reschedule"
ClickConfirmReschedule ==
    /\ page.confirm_reschedule
    /\ \E net1 \in Net, net2 \in NetLoad :
          Event([NoEvent EXCEPT !.widget = "confirm_reschedule"],
                view, work_order, net1, net2)

\* lines 380-382: clicking "Start New Chat"
ClickStartNewChat ==
    /\ page.kind = "chat"
    /\ \E net1 \in NetLoad, net2 \in NetLoad :
          Event([NoEvent EXCEPT !.widget = "start_new_chat"],
                view, work_order, net1, net2)

\* lines 385-392: clicking "Confirm Appointment"
ClickConfirmAppointment ==
    /\ page.confirm_appointment
    /\ \E net1 \in Net, net2 \in NetLoad :
          Event([NoEvent EXCEPT !.widget = "confirm_appointment"],
                view, work_order, net1, net2)

\* lines 548-552: the sidebar radio.  The work-order input is not rendered in
\* the technician view, so its value is dropped and starts again from the URL.
SelectView ==
    \E v \in Views \ {view}, net \in NetLoad :
        Event([NoEvent EXCEPT !.widget = "radio"], v, "", net, net)

\* lines 413-418: clicking "Login"
Login ==
    /\ page.kind = "login"
    /\ \E pw \in Passwords, net \in NetLoad :
          Event([NoEvent EXCEPT !.widget = "login", !.password = pw],
                view, work_order, net, net)

\* lines 500-509: clicking "Send Late Alert" on a listed job
SendLateAlert ==
    \E job \in page.jobs, mail \in MailOutcomes, net \in NetLoad :
        Event([NoEvent EXCEPT !.widget = "late_alert", !.job = job, !.mail = mail],
              view, work_order, net, net)

\* lines 511-519: clicking "Mark Complete" on a listed job
MarkComplete ==
    \E job \in page.jobs, net1 \in Net, net2 \in NetLoad :
        Event([NoEvent EXCEPT !.widget = "mark_complete", !.job = job],
              view, work_order, net1, net2)

\* lines 529-531: clicking "Refresh Data"
Refresh ==
    /\ page.kind = "dashboard"
    /\ \E net1 \in NetLoad, net2 \in NetLoad :
          Event([NoEvent EXCEPT !.widget = "refresh"], view, work_order, net1, net2)

\* lines 534-536: clicking "Logout"
Logout ==
    /\ page.kind = "dashboard"
    /\ \E net1 \in NetLoad, net2 \in NetLoad :
          Event([NoEvent EXCEPT !.widget = "logout"], view, work_order, net1, net2)

Next ==
    \/ EnterWorkOrder
    \/ SubmitChat
    \/ ClickConfirmReschedule
    \/ ClickStartNewChat
    \/ ClickConfirmAppointment
    \/ SelectView
    \/ Login
    \/ SendLateAlert
    \/ MarkComplete
    \/ Refresh
    \/ Logout

Spec == Init /\ [][Next]_vars

-----------------------------------------------------------------------------
(* Claims about the chat and the reschedule confirmation (Spec) *)

ChatHistory == session_state["chat_history"]

\* C1: when the last run extracted a directive (d, t) for work order w and the
\* user's next action is the click on "Confirm Reschedule", with the sheet
\* readable and row w present, update_appointment is called with
\* (w, d, t, "Rescheduled").
C1_ConfirmCommits ==
    (last.op = "confirm_reschedule" /\ last.reached)
    => /\ last.call.issued
       /\ last.call.work_order = last.work_order
       /\ last.call.new_date = last.pending[1][1]
       /\ last.call.new_time = last.pending[2][1]
       /\ last.call.new_status = "Rescheduled"

\* C2: a chat turn never calls update_appointment and never changes the sheet;
\* the sheet changes only through an update_appointment call; and a call with
\* status "Rescheduled" is made only by the click on "Confirm Reschedule",
\* with the date and time of the directive that was on the page.
C2_NoWriteWithoutConfirm ==
    [][ /\ last'.op = "chat_input" => (table' = table /\ ~last'.call.issued)
        /\ table' # table => last'.call.issued
        /\ (last'.call.issued /\ last'.call.new_status = "Rescheduled")
           => /\ last'.op = "confirm_reschedule"
              /\ page.confirm_reschedule
              /\ last'.call.new_date = page.new_date[1]
              /\ last'.call.new_time = page.new_time[1] ]_vars

\* C2 witness: a chat turn extracted a directive and no store call was made.
C2_Witness ==
    /\ last.op = "chat_input"
    /\ page.confirm_reschedule
    /\ Truthy(page.new_date) /\ Truthy(page.new_time)
    /\ ~last.call.issued

\* C3: a chat turn whose assistant call raised ends with the user's message
\* and an assistant message holding the error text in the history, with no
\* directive pending whatever the error text, with no store call, and with the
\* chat input still on the page.
C3_FailureContained ==
    (last.op = "chat_input" /\ last.reached /\ last.outcome.raised)
    => /\ Len(ChatHistory) >= 2
       /\ ChatHistory[Len(ChatHistory) - 1] = [role |-> "user", content |-> last.prompt]
       /\ ChatHistory[Len(ChatHistory)].role = "assistant"
       /\ ChatHistory[Len(ChatHistory)].content
             = ErrPrefix \o last.outcome.text \o ErrSuffix
       /\ ~page.confirm_reschedule
       /\ page.new_date = None /\ page.new_time = None
       /\ ~last.call.issued
       /\ page.kind = "chat"

\* C4: after a "Confirm Reschedule" whose update_appointment returned success
\* the chat history is empty and no directive is pending.
C4_ClearedAfterCommit ==
    (last.op = "confirm_reschedule" /\ last.call.issued /\ last.call.ret)
    => /\ ChatHistory = <<>>
       /\ ~page.confirm_reschedule

\* the case of C4: a confirmed reschedule that update_appointment accepted
C4_Case == last.op = "confirm_reschedule" /\ last.call.issued /\ last.call.ret

-----------------------------------------------------------------------------
(* Claims about resets and the system context (Spec) *)

\* no chat turn is kept in the session
HistoryEmpty == Has(session_state, "chat_history") => ChatHistory = <<>>

\* C11: after "Start New Chat", after a reschedule that update_appointment
\* accepted, after the switch to the technician dashboard and after the
\* technician's "Logout", the session's chat history is empty.
C11_ResetsClearHistory ==
    (\/ last.op = "start_new_chat" /\ last.reached
     \/ last.op = "confirm_reschedule" /\ last.call.issued /\ last.call.ret
     \/ last.op = "radio" /\ view = "Technician Dashboard"
     \/ last.op = "logout" /\ last.reached)
    => HistoryEmpty
\* the system context rendered from the row that work order wo has now
ContextOf(wo) == initialize_chat_session(table[Min(mask(table, wo))])

\* C12: after "Start New Chat", and after a reschedule that update_appointment
\* accepted, the system context kept for the next chat turn is the one
\* rendered from the appointment's current row.  Stated for a session whose
\* context was rendered for the work order on the page (the other case is
\* C17's).
C12_ResetsRebuildContext ==
    (/\ \/ last.op = "start_new_chat" /\ last.reached
        \/ last.op = "confirm_reschedule" /\ last.call.issued /\ last.call.ret
     /\ page.kind = "chat"
     /\ session_state["system_prompt"].Work_Order = work_order)
    => session_state["system_prompt"] = ContextOf(work_order)
\* the directive of the most recent assistant reply, <<None, None>> before
\* the first turn
LastDirective ==
    IF Has(session_state, "chat_history") /\ ChatHistory # <<>>
    THEN parse_reschedule_request(ChatHistory[Len(ChatHistory)].content)
    ELSE <<None, None>>

\* no directive is pending: no turn was taken, or the most recent reply
\* yielded no date or no time
NoPending == ~(Truthy(LastDirective[1]) /\ Truthy(LastDirective[2]))

\* C13: while no directive is pending the page offers no "Confirm
\* Reschedule", the button is offered only with a non-empty date and time,
\* no step from a state without the button calls update_appointment for a
\* reschedule, and no reschedule call carries an empty date or time.
C13_ConfirmNeedsDirective ==
    /\ [](/\ NoPending => ~page.confirm_reschedule
          /\ page.confirm_reschedule
             => Truthy(page.new_date) /\ Truthy(page.new_time))
    /\ [][ /\ ~page.confirm_reschedule
              => ~(last'.call.issued /\ last'.call.new_status = "Rescheduled")
           /\ (last'.call.issued /\ last'.call.new_status = "Rescheduled")
              => last'.call.new_date # <<>> /\ last'.call.new_time # <<>> ]_vars

\* C13 witness: a chat turn whose reply has the marker but no complete
\* directive; the page offers no "Confirm Reschedule".
C13_Witness ==
    /\ last.op = "chat_input" /\ last.reached
    /\ Contains(ChatHistory[Len(ChatHistory)].content, MARK)
    /\ NoPending
    /\ ~page.confirm_reschedule
    /\ ~last.call.issued

-----------------------------------------------------------------------------
(* Claims about the history's shape and the subject appointment (Spec) *)

\* the history of a session state, empty while the session has none
HistoryOf(ss) == IF Has(ss, "chat_history") THEN ss["chat_history"] ELSE <<>>

\* complete turns: user, assistant, user, assistant, ...
CompleteTurns(h) ==
    /\ Len(h) % 2 = 0
    /\ \A i \in 1..Len(h) :
          h[i].role = IF i % 2 = 1 THEN "user" ELSE "assistant"

C16_FailureRetryable ==
    (last.op = "confirm_reschedule" /\ last.reached /\ last.net.update # "ok")
    => /\ page.confirm_reschedule
       /\ <<page.new_date, page.new_time>> = last.pending

\* C17: at every chat turn the system context sent to the assistant was
\* rendered from the appointment of the work order on the page, the one a
\* confirm in that turn would update.
C17_ContextMatchesSubject ==
    (last.op = "chat_input" /\ last.reached)
    => session_state["system_prompt"].Work_Order = work_order

-----------------------------------------------------------------------------
(* Claims about the status-only actions and the technician gate (Spec) *)

\* the sheet with the status of work order wo set to status, nothing else
WithStatus(sheet, wo, status) ==
    [i \in 1..Len(sheet) |->
        IF sheet[i].Work_Order = wo THEN [sheet[i] EXCEPT !.Status = status]
        ELSE sheet[i]]

\* C18: "Mark Complete" and "Confirm Appointment" change the status of their
\* row, to Completed and Confirmed, and nothing else: date, time and every
\* other cell of the sheet are as before the click.  "Confirm Appointment" is
\* offered only while the status is Pending or Email Sent.
C18_StatusOnly ==
    [][ /\ last'.op = "mark_complete" /\ last'.call.issued
           => table' = IF last'.call.ret
                       THEN WithStatus(table, last'.job, "Completed")
                       ELSE table
        /\ last'.op = "confirm_appointment" /\ last'.call.issued
           => /\ table' = IF last'.call.ret
                          THEN WithStatus(table, work_order, "Confirmed")
                          ELSE table
              /\ table[Min(mask(table, work_order))].Status
                    \in {"Pending", "Email Sent"} ]_vars

\* C18 witness: a job was marked complete after another appointment had been
\* confirmed by its customer; both rows still have their first date and time.
C18_Witness ==
    /\ last.op = "mark_complete" /\ last.call.issued /\ last.call.ret
    /\ last.job = "WO-002"
    /\ table[2].Status = "Completed"
    /\ table[2].Appointment_Date = Date1 /\ table[2].Appointment_Time = Time3
    /\ table[1].Status = "Confirmed"
    /\ table[1].Appointment_Date = Date1 /\ table[1].Appointment_Time = Time1
\* st.session_state.tech_authenticated, False while the key is not there
Authenticated(ss) == Has(ss, "tech_authenticated") /\ ss["tech_authenticated"]

\* C19: a "Mark Complete" update and a late-alert email are made only from a
\* state where tech_authenticated is true; it becomes true only by a "Login"
\* with the configured password; "Logout" makes it false.
C19_TechnicianGate ==
    [][ /\ (last'.call.issued /\ last'.call.new_status = "Completed")
           => Authenticated(session_state) /\ last'.op = "mark_complete"
        /\ last'.shown \cap {"Late alert sent!", "Failed to send email"} # {}
           => Authenticated(session_state) /\ last'.op = "late_alert"
        /\ (~Authenticated(session_state) /\ Authenticated(session_state'))
           => last'.op = "login" /\ last'.password = TECH_PASSWORD
        /\ (last'.op = "logout" /\ last'.reached)
           => ~Authenticated(session_state') ]_vars

\* C19 witness: after a "Logout" and a "Login" with a wrong password the
\* session is not authenticated and the page is the password prompt.
C19_Witness ==
    /\ last.op = "login" /\ last.password # TECH_PASSWORD
    /\ ~Authenticated(session_state)
    /\ page.kind = "login"
    /\ \E i \in 1..Len(table) : table[i].Status = "Completed"
\* C20: "Marked as complete!" and "Appointment confirmed!" are shown only
\* when the update_appointment call of the click returned True.
C20_SuccessOnlyOnSuccess ==
    (/\ last.op \in {"mark_complete", "confirm_appointment"}
     /\ last.call.issued
     /\ last.shown \cap {"Marked as complete!", "Appointment confirmed!"} # {})
    => last.call.ret

=============================================================================
